---------------------------- MODULE Spec2Model ----------------------------
(***************************************************************************)
(* Model of the profile load/cache orchestrator (ProfileProxy) and of the  *)
(* account secret store (NostrSecretStatefull).                            *)
(*                                                                         *)
(* The profile cache is the partial map ProfileCache.profiles; a call that *)
(* awaits profileApi.loadProfiles is an element of `pending` until the     *)
(* remote answers (ResumeResolved) or fails (ResumeRejected).  JavaScript  *)
(* runs each handler to its next await without interleaving, so the part   *)
(* of a call before the await is one step and the part after it another.   *)
(***************************************************************************)
EXTENDS Integers, Sequences, FiniteSets, Bags, TLC

VARIABLES
    profiles,   \* ProfileCache.profiles: partial map npub -> profile
    pending,    \* bag of the calls suspended on `await profileApi.loadProfiles(npubs)`
    nextId,     \* 1 + the number of load calls made so far
    apiCalls,   \* number of calls made to profileApi.loadProfiles so far
    done,       \* the call this step settled, << >> when it settled none
    accounts,   \* NostrSecretStatefull.accounts, in property order
    storage,    \* localStorage: << >> (no item) or <<blob>>
    subject,    \* current value of accountsSubject
    lastCall    \* the account-store call made last, with its effects

vars == <<profiles, pending, nextId, apiCalls, done,
          accounts, storage, subject, lastCall>>

profileVars == <<profiles, pending, nextId, apiCalls, done>>
accountVars == <<accounts, storage, subject, lastCall>>

---------------------------------------------------------------------------
(* Bounds and input domains *)

MaxCalls == 2
MaxBatches == 2
MaxBatchLen == 2

Npubs == {"p1", "p2"}
Pubkeys == {"k1", "k2"}
Nsecs == {"s1", "s2"}
Pins == {"1234"}
Contents == {"d1", "d2"}

LAZY_LOADED == "LAZY_LOADED"
EAGER_LOADED == "EAGER_LOADED"
NoUser == "none"

SeqsUpTo(S, n) == UNION {[1..k -> S] : k \in 0..n}

Batches == SeqsUpTo(Npubs, MaxBatchLen)
BatchLists == SeqsUpTo(Batches, MaxBatches)

---------------------------------------------------------------------------
(* Identity conversion *)

castPubkeyToNostrPublic(pubkey) ==
    CASE pubkey = "k1" -> "p1"
      [] pubkey = "k2" -> "p2"

nostrPublic(nsec) ==
    CASE nsec = "s1" -> "p1"
      [] nsec = "s2" -> "p2"

---------------------------------------------------------------------------
(* Profile cache *)

RECURSIVE Flat(_)
Flat(npubss) ==
    IF npubss = << >> THEN << >>
    ELSE Head(npubss) \o Flat(Tail(npubss))

Range(s) == {s[i] : i \in DOMAIN s}

RECURSIVE SetOf(_)
SetOf(s) ==
    IF s = << >> THEN << >>
    ELSE LET rest == SetOf(SubSeq(s, 1, Len(s) - 1))
             last == s[Len(s)]
         IN IF last \in Range(rest) THEN rest ELSE Append(rest, last)

isEagerLoaded(cache, npub) ==
    npub \in DOMAIN cache /\ cache[npub].load = EAGER_LOADED

castEventToProfile(event) ==
    [npub |-> event.npub, load |-> EAGER_LOADED,
     data |-> event.data, user |-> NoUser]

Put(cache, npub, profile) ==
    [x \in DOMAIN cache \cup {npub} |->
        IF x = npub THEN profile ELSE cache[x]]

Upsert(cache, p) ==
    IF p.npub \in DOMAIN cache
    THEN LET old == cache[p.npub]
         IN Put(cache, p.npub,
                [old EXCEPT !.data = p.data,
                            !.load = IF old.load = EAGER_LOADED
                                     THEN EAGER_LOADED ELSE p.load])
    ELSE Put(cache, p.npub, p)

RECURSIVE cacheProfiles(_, _)
cacheProfiles(cache, ps) ==
    IF ps = << >> THEN cache
    ELSE cacheProfiles(Upsert(cache, Head(ps)), Tail(ps))

cacheEvents(cache, events) ==
    cacheProfiles(cache, [i \in DOMAIN events |-> castEventToProfile(events[i])])

(* get(npub) of a key the cache holds.  For a key it never saw the cache
   raises a lookup error and fabricates nothing (the first of the two
   policies section 4.1 of the specification allows); getError tells when *)
getProfiles(cache, npubs) == [i \in DOMAIN npubs |-> cache[npubs[i]]]

getError(cache, npubs) == \E i \in DOMAIN npubs : npubs[i] \notin DOMAIN cache

---------------------------------------------------------------------------
(* Remote profile source and encryption collaborator *)

Missing == "missing"

EventsFor(npubs, f) ==
    LET present == SelectSeq(npubs, LAMBDA x : f[x] # Missing)
    IN [i \in DOMAIN present |-> [npub |-> present[i], data |-> f[present[i]]]]

(* what profileApi.loadProfiles(npubs) may resolve to: a record for each of
   the requested identifiers it found, in request order *)
Responses(npubs) ==
    {EventsFor(npubs, f) : f \in [Range(npubs) -> Contents \cup {Missing}]}

Encrypted(nsec, pin) ==
    CASE nsec = "s1" -> "e1"
      [] nsec = "s2" -> "e2"

(* encryptAccount(profile, pin): << >> is null *)
encryptAccount(profile, pin, usable) ==
    IF usable
    THEN <<[npub |-> profile.npub,
            nsecEncrypted |-> Encrypted(profile.user, pin)]>>
    ELSE << >>

(* NostrSecretStatefull.createAccount(profile, pin): << >> is null *)
createAccount(profile, pin, usable) ==
    LET unauthenticated == encryptAccount(profile, pin, usable)
    IN IF unauthenticated = << >> THEN << >> ELSE unauthenticated

---------------------------------------------------------------------------
(* ProfileProxy *)

NoArg == ""

(* line 78 without the Set *)
uniqueNpubs_NoSet(npubss) == Flat(npubss)

uniqueNpubs(npubss) == SetOf(Flat(npubss))

HasRepeat(s) == \E i, j \in DOMAIN s : i # j /\ s[i] = s[j]

(* the arguments of a loadProfiles call as the call sees them: the list
   line 78 computes, and whether they named an identifier more than once *)
Input(npubss) ==
    [npubs |-> uniqueNpubs(npubss), repeated |-> HasRepeat(Flat(npubss))]

LoadProfilesInputs == {Input(npubss) : npubss \in BatchLists}
LoadInputs == {Input(<<npubs>>) : npubs \in Batches}

(* line 80 without the filter *)
notLoaded_NoFilter(cache, npubs) == npubs

notLoaded(cache, npubs) ==
    SelectSeq(npubs, LAMBDA npub : ~isEagerLoaded(cache, npub))

(* line 54 sending every load to loadProfile *)
servedFromCache_Never(cache, npub) == FALSE

servedFromCache(cache, npub) ==
    /\ npub \in DOMAIN cache
    /\ cache[npub].load # LAZY_LOADED

(* a settled call: what it asked for, what it handed to the remote source,
   what the remote source did ("none": it was not called), and what the
   caller got *)
Settled(op, requested, fetch, remote, events, outcome, value) ==
    [op |-> op, requested |-> requested, fetch |-> fetch, remote |-> remote,
     events |-> events, outcome |-> outcome, value |-> value]

(* forceProfileReload up to its await: the remote call is made and the
   caller suspends *)
forceProfileReloadCall(op, requested, repeated, npubs, nsec, pin) ==
    /\ pending' = pending (+) SetToBag(
           {[op |-> op, requested |-> requested, repeated |-> repeated,
             fetch |-> npubs, nsec |-> nsec, pin |-> pin]})
    /\ nextId' = nextId + 1
    /\ apiCalls' = apiCalls + 1
    /\ done' = << >>
    /\ UNCHANGED profiles

(* loadProfiles(...npubss), told what line 78 made of its arguments *)
loadProfilesCall(op, input, nsec, pin) ==
    forceProfileReloadCall(op, input.npubs, input.repeated,
                           notLoaded(profiles, input.npubs), nsec, pin)

loadProfileCall(op, npub, nsec, pin) ==
    loadProfilesCall(op, Input(<<<<npub>>>>), nsec, pin)

(* profile.user = user, written to the cached profile object (line 71) *)
accountFor(cache, npub, nsec) == [cache[npub] EXCEPT !.user = nsec]

LoadProfiles ==
    /\ nextId <= MaxCalls
    /\ \E input \in LoadProfilesInputs :
          loadProfilesCall("loadProfiles", input, NoArg, NoArg)
    /\ UNCHANGED accountVars

LoadBatch ==
    /\ nextId <= MaxCalls
    /\ \E input \in LoadInputs :
          loadProfilesCall("loadBatch", input, NoArg, NoArg)
    /\ UNCHANGED accountVars

LoadProfile ==
    /\ nextId <= MaxCalls
    /\ \E npub \in Npubs : loadProfileCall("loadProfile", npub, NoArg, NoArg)
    /\ UNCHANGED accountVars

LoadFromPubKey ==
    /\ nextId <= MaxCalls
    /\ \E pubkey \in Pubkeys :
          loadProfileCall("loadFromPubKey",
                          castPubkeyToNostrPublic(pubkey), NoArg, NoArg)
    /\ UNCHANGED accountVars

resolveCached(op, npub, cache, value) ==
    /\ profiles' = cache
    /\ done' = <<Settled(op, <<npub>>, << >>, "none", << >>, "resolved", value)>>
    /\ nextId' = nextId + 1
    /\ UNCHANGED <<pending, apiCalls>>

load(npub) ==
    IF servedFromCache(profiles, npub)
    THEN resolveCached("load", npub, profiles, <<profiles[npub]>>)
    ELSE loadProfileCall("load", npub, NoArg, NoArg)

Load ==
    /\ nextId <= MaxCalls
    /\ \E npub \in Npubs : load(npub)
    /\ UNCHANGED accountVars

(* the continuation after `await this.load(...)` runs as a microtask of the
   same turn when load resolved from the cache, so it is part of this step *)
LoadAccount ==
    /\ nextId <= MaxCalls
    /\ \E nsec \in Nsecs, pin \in Pins, usable \in BOOLEAN :
          LET npub == nostrPublic(nsec)
          IN IF servedFromCache(profiles, npub)
             THEN LET profile == accountFor(profiles, npub, nsec)
                  IN resolveCached("loadAccount", npub,
                                   Put(profiles, npub, profile),
                                   createAccount(profile, pin, usable))
             ELSE loadProfileCall("loadAccount", npub, nsec, pin)
    /\ UNCHANGED accountVars

ProxyCache ==
    /\ \E p \in [npub : Npubs, load : {LAZY_LOADED},
                 data : Contents, user : {NoUser}] :
          profiles' = cacheProfiles(profiles, <<p>>)
    /\ done' = << >>
    /\ UNCHANGED <<pending, nextId, apiCalls>>
    /\ UNCHANGED accountVars

---------------------------------------------------------------------------
(* The continuation of a suspended call *)

ListOps == {"loadProfiles", "loadBatch"}

(* npubs => Promise.resolve(npubs[0]): << >> is undefined *)
first(list) == IF list = << >> THEN << >> ELSE <<list[1]>>

(* line 92 caching the first record only *)
cacheFetched_FirstOnly(cache, events) == cacheEvents(cache, first(events))

(* line 92 left out *)
cacheFetched_Skipped(cache, events) == cache

cacheFetched(cache, events) == cacheEvents(cache, events)

settle(call, remote, events, outcome, value) ==
    <<Settled(call.op, call.requested, call.fetch, remote, events,
              outcome, value)>>

(* forceProfileReload after its await resolved with `events`, and the
   callers' continuations *)
resumeResolved(call, events, usable) ==
    LET cached == cacheFetched(profiles, events)
    IN IF getError(cached, call.fetch)
       THEN /\ profiles' = cached
            /\ done' = settle(call, "answered", events, "lookupError", << >>)
       ELSE LET list == getProfiles(cached, call.fetch)
            IN CASE call.op \in ListOps ->
                      /\ profiles' = cached
                      /\ done' = settle(call, "answered", events, "resolved", list)
                 [] call.op = "loadAccount" ->
                      LET npub == call.fetch[1]
                          profile == accountFor(cached, npub, call.nsec)
                      IN /\ profiles' = Put(cached, npub, profile)
                         /\ done' = settle(call, "answered", events, "resolved",
                                createAccount(profile, call.pin, usable))
                 [] OTHER ->
                      /\ profiles' = cached
                      /\ done' = settle(call, "answered", events, "resolved", first(list))

Usable(call) == IF call.op = "loadAccount" THEN BOOLEAN ELSE {TRUE}

ResumeResolved ==
    /\ \E call \in BagToSet(pending) :
          /\ \E events \in Responses(call.fetch), usable \in Usable(call) :
                resumeResolved(call, events, usable)
          /\ pending' = pending (-) SetToBag({call})
    /\ UNCHANGED <<nextId, apiCalls>>
    /\ UNCHANGED accountVars

(* the await throws: lines 92-93 do not run and every caller up the chain
   rejects *)
(* a failed fetch leaving a placeholder for each identifier it asked for *)
resumeRejected_Placeholders(call) ==
    /\ profiles' = cacheProfiles(profiles,
           [i \in DOMAIN call.fetch |->
               [npub |-> call.fetch[i], load |-> LAZY_LOADED,
                data |-> "d1", user |-> NoUser]])
    /\ done' = <<Settled(call.op, call.requested, call.fetch, "failed",
                         << >>, "rejected", << >>)>>

resumeRejected(call) ==
    /\ profiles' = profiles
    /\ done' = settle(call, "failed", << >>, "rejected", << >>)

ResumeRejected ==
    /\ \E call \in BagToSet(pending) :
          /\ resumeRejected(call)
          /\ pending' = pending (-) SetToBag({call})
    /\ UNCHANGED <<nextId, apiCalls>>
    /\ UNCHANGED accountVars

---------------------------------------------------------------------------
(* NostrSecretStatefull *)

Undefined == "undefined"

Accounts == [npub : Npubs, nsecEncrypted : {"e1", "e2", Undefined}]

(* a JavaScript object with string keys: its properties in insertion order *)
Keys(obj) == {obj[i].key : i \in DOMAIN obj}

(* an assignment that always adds a property *)
setProperty_Append(obj, key, value) ==
    Append(obj, [key |-> key, value |-> value])

setProperty(obj, key, value) ==
    IF key \in Keys(obj)
    THEN [i \in DOMAIN obj |->
            IF obj[i].key = key THEN [key |-> key, value |-> value] ELSE obj[i]]
    ELSE Append(obj, [key |-> key, value |-> value])

(* a delete under a key the object does not hold *)
deleteProperty_Nothing(obj, key) == obj

deleteProperty(obj, key) == SelectSeq(obj, LAMBDA e : e.key # key)

objectValues(obj) == [i \in DOMAIN obj |-> obj[i].value]

(* JSON.stringify: a property whose value is undefined is not written *)
stringifyAccount(a) ==
    <<<<"npub", a.npub>>>> \o
    (IF a.nsecEncrypted = Undefined THEN << >>
     ELSE <<<<"nsecEncrypted", a.nsecEncrypted>>>>)

stringify(obj) ==
    [i \in DOMAIN obj |-> <<obj[i].key, stringifyAccount(obj[i].value)>>]

(* JSON.parse: a property the text does not hold reads as undefined *)
Field(fields, name) ==
    IF \E i \in DOMAIN fields : fields[i][1] = name
    THEN fields[CHOOSE i \in DOMAIN fields : fields[i][1] = name][2]
    ELSE Undefined

parseAccount(fields) ==
    [npub |-> Field(fields, "npub"),
     nsecEncrypted |-> Field(fields, "nsecEncrypted")]

parse(blob) ==
    [i \in DOMAIN blob |-> [key |-> blob[i][1], value |-> parseAccount(blob[i][2])]]

(* a read under a key that was never written *)
getItem_NoItem(store) == stringify(<< >>)

(* localStorage.getItem('NostrSecretStatefull_accounts') || '{}' *)
getItem(store) == IF store = << >> THEN stringify(<< >>) ELSE store[1]

Write(blob) == [kind |-> "write", value |-> blob]
Emit(snapshot) == [kind |-> "emit", value |-> snapshot]

(* the record of an account-store call: the call, how it ended, its
   effects in order, the registry it found (`before`) and the call made
   before it (`prev`, << >> when there was none since construction) *)
Prior(call) ==
    IF call = << >> THEN << >>
    ELSE <<[op |-> call[1].op, npub |-> call[1].npub, arg |-> call[1].arg,
            outcome |-> call[1].outcome, before |-> call[1].before]>>

Called(op, arg, outcome, effects) ==
    <<[op |-> op, npub |-> arg.npub, arg |-> arg, outcome |-> outcome,
       effects |-> effects, before |-> accounts, prev |-> Prior(lastCall)]>>

(* lines 50 and 51 in the other order *)
update_EmitFirst(op, arg, obj, writable) ==
    IF writable
    THEN /\ storage' = <<stringify(obj)>>
         /\ subject' = objectValues(obj)
         /\ lastCall' = Called(op, arg, "returned",
                               <<Emit(objectValues(obj)), Write(stringify(obj))>>)
    ELSE /\ lastCall' = Called(op, arg, "threw", << >>)
         /\ UNCHANGED <<storage, subject>>

(* line 51 run although line 50 threw *)
update_EmitUnsaved(op, arg, obj, writable) ==
    IF writable
    THEN /\ storage' = <<stringify(obj)>>
         /\ subject' = objectValues(obj)
         /\ lastCall' = Called(op, arg, "returned",
                               <<Write(stringify(obj)), Emit(objectValues(obj))>>)
    ELSE /\ subject' = objectValues(obj)
         /\ lastCall' = Called(op, arg, "threw", <<Emit(objectValues(obj))>>)
         /\ UNCHANGED storage

(* update() with the registry already changed to `obj`; setItem throws when
   the storage refuses the write, and the call ends there *)
update(op, arg, obj, writable) ==
    IF writable
    THEN /\ storage' = <<stringify(obj)>>
         /\ subject' = objectValues(obj)
         /\ lastCall' = Called(op, arg, "returned",
                               <<Write(stringify(obj)), Emit(objectValues(obj))>>)
    ELSE /\ lastCall' = Called(op, arg, "threw", << >>)
         /\ UNCHANGED <<storage, subject>>

(* update() called before line 38 *)
addAccount_UpdateFirst(unauthenticated, writable) ==
    /\ accounts' = setProperty(accounts, unauthenticated.npub, unauthenticated)
    /\ update("addAccount", unauthenticated, accounts, writable)

addAccount(unauthenticated, writable) ==
    /\ accounts' = setProperty(accounts, unauthenticated.npub, unauthenticated)
    /\ update("addAccount", unauthenticated, accounts', writable)

removeAccount(profile, writable) ==
    /\ accounts' = deleteProperty(accounts, profile.npub)
    /\ update("removeAccount", profile, accounts', writable)

AddAccount ==
    /\ \E unauthenticated \in Accounts, writable \in BOOLEAN :
          addAccount(unauthenticated, writable)
    /\ UNCHANGED profileVars

RemoveAccount ==
    /\ \E profile \in Accounts, writable \in BOOLEAN :
          removeAccount(profile, writable)
    /\ UNCHANGED profileVars

(* a createAccount that adds the account it made *)
createAccountCall_Commits(profile, pin, usable) ==
    LET account == createAccount(profile, pin, usable)
    IN /\ done' = <<Settled("createAccount", <<profile.npub>>, << >>, "none",
                            << >>, "resolved", account)>>
       /\ IF account = << >>
          THEN UNCHANGED accountVars
          ELSE addAccount(account[1], TRUE)

(* a direct call of createAccount: the caller gets the account or null *)
createAccountCall(profile, pin, usable) ==
    /\ done' = <<Settled("createAccount", <<profile.npub>>, << >>, "none",
                         << >>, "resolved", createAccount(profile, pin, usable))>>
    /\ UNCHANGED accountVars

(* encryption has nothing to work on when the profile carries no user *)
CreateAccount ==
    /\ \E npub \in DOMAIN profiles, pin \in Pins, usable \in BOOLEAN :
          createAccountCall(profiles[npub], pin,
                            usable /\ profiles[npub].user # NoUser)
    /\ UNCHANGED <<profiles, pending, nextId, apiCalls>>

(* the caller adds the account loadAccount or createAccount gave it *)
AddReturned ==
    /\ done # << >>
    /\ done[1].op \in {"loadAccount", "createAccount"}
    /\ done[1].value # << >>
    /\ \E writable \in BOOLEAN : addAccount(done[1].value[1], writable)
    /\ UNCHANGED profileVars

(* new BehaviorSubject(...).asObservable(): what a subscriber is sent when
   it subscribes, the subject's current value *)
replay(current) == <<current>>

(* the subject seeded with an empty list *)
Construct_EmptySubject ==
    /\ accounts' = parse(getItem(storage))
    /\ subject' = << >>
    /\ lastCall' = << >>
    /\ UNCHANGED storage
    /\ UNCHANGED profileVars

(* a new process: the field initialisers of lines 10-12 and 26 run again *)
Construct ==
    /\ accounts' = parse(getItem(storage))
    /\ subject' = objectValues(accounts')
    /\ lastCall' = << >>
    /\ UNCHANGED storage
    /\ UNCHANGED profileVars

InitAccounts ==
    /\ storage = << >>
    /\ accounts = parse(getItem(storage))
    /\ subject = objectValues(accounts)
    /\ lastCall = << >>

---------------------------------------------------------------------------
(* Specifications *)

EmptyCache == [x \in {} |-> 0]

Init ==
    /\ profiles = EmptyCache
    /\ pending = EmptyBag
    /\ nextId = 1
    /\ apiCalls = 0
    /\ done = << >>
    /\ InitAccounts

NextProfile ==
    \/ LoadProfiles
    \/ LoadBatch
    \/ LoadProfile
    \/ LoadFromPubKey
    \/ Load
    \/ LoadAccount
    \/ ProxyCache
    \/ ResumeResolved
    \/ ResumeRejected

SpecProfile == Init /\ [][NextProfile]_vars

NextAccounts ==
    \/ AddAccount
    \/ RemoveAccount
    \/ Construct

SpecAccounts == Init /\ [][NextAccounts]_vars

(* an account made by loadAccount or createAccount, and the store it may
   later be added to *)
NextAccountFlow ==
    \/ LoadAccount
    \/ ResumeResolved
    \/ ResumeRejected
    \/ CreateAccount
    \/ AddReturned

SpecAccountFlow == Init /\ [][NextAccountFlow]_vars

---------------------------------------------------------------------------
(* Properties of the profile orchestrator *)

Suspended == BagToSet(pending)

(* the calls that went to the remote source in this step *)
Issued(call) == CopiesIn(call, pending') > CopiesIn(call, pending)

Settles == done # << >>

NpubsOf(list) == [i \in DOMAIN list |-> list[i].npub]

ProfileOps == {"load", "loadProfile", "loadFromPubKey"}

(* C1: the identifier list a call hands to profileApi.loadProfiles names no
   identifier twice, whatever the batches it was called with repeated *)
C1_FetchListHasNoRepeat ==
    \A call \in Suspended : ~HasRepeat(call.fetch)

C1_Witness ==
    \E call \in Suspended :
        /\ call.op = "loadProfiles"
        /\ call.repeated
        /\ Len(call.fetch) = 2

(* C2: no load hands to the remote source an identifier that is
   EAGER_LOADED in the cache at the moment the fetch is issued *)
C2_NoEagerRefetch ==
    [][\A call \in BagToSet(pending') :
          Issued(call) =>
             \A i \in DOMAIN call.fetch : ~isEagerLoaded(profiles, call.fetch[i])]_vars

C2_Witness ==
    \E call \in Suspended :
        /\ call.fetch # << >>
        /\ \E i \in DOMAIN call.requested :
              /\ call.requested[i] \notin Range(call.fetch)
              /\ isEagerLoaded(profiles, call.requested[i])

(* C3: a successful loadProfiles (or batch load) resolves to one profile for
   each distinct requested identifier, in first-occurrence order, those
   already EAGER_LOADED included *)
C3_ResolvesToFullRequestedSet ==
    (Settles /\ done[1].op \in ListOps /\ done[1].outcome = "resolved")
        => NpubsOf(done[1].value) = done[1].requested

(* C4: a load(X) made while X is EAGER_LOADED calls the remote source not at
   all, resolves to the cached profile of X and leaves the cache as it is *)
LoadStarted(npub) ==
    /\ nextId' = nextId + 1
    /\ \/ /\ pending' = pending
          /\ done' # << >>
          /\ done'[1].op = "load"
          /\ done'[1].requested = <<npub>>
       \/ \E call \in BagToSet(pending') :
             /\ Issued(call)
             /\ call.op = "load"
             /\ call.requested = <<npub>>

C4_CachingStability ==
    [][\A npub \in Npubs :
          (isEagerLoaded(profiles, npub) /\ LoadStarted(npub)) =>
             /\ apiCalls' = apiCalls
             /\ pending' = pending
             /\ profiles' = profiles
             /\ done' = <<Settled("load", <<npub>>, << >>, "none", << >>,
                                  "resolved", <<profiles[npub]>>)>>]_vars

C4_Witness ==
    /\ Settles
    /\ done[1].op = "load"
    /\ done[1].remote = "none"
    /\ isEagerLoaded(profiles, done[1].requested[1])
    /\ done[1].value = <<profiles[done[1].requested[1]]>>

(* C5: when the remote source fails, the call rejects and the cache is left
   as it was: neither the call's going to the remote source nor its failure
   writes to the cache *)
C5_FailureLeavesCache ==
    [][/\ (\E call \in BagToSet(pending') : Issued(call)) => profiles' = profiles
       /\ (done' # << >> /\ done'[1].remote = "failed") =>
             /\ done'[1].outcome = "rejected"
             /\ done'[1].value = << >>
             /\ profiles' = profiles]_vars

C5_Witness ==
    /\ Settles
    /\ done[1].remote = "failed"
    /\ done[1].outcome = "rejected"
    /\ done[1].fetch # << >>
    /\ \E npub \in Npubs : isEagerLoaded(profiles, npub)
    /\ \E npub \in Range(done[1].fetch) : npub \notin DOMAIN profiles

(* C6: calls that overlap ask the remote source for an identifier at most
   once between them *)
C6_OverlappingCallsFetchOnce ==
    \A c1, c2 \in Suspended :
        (c1 # c2 \/ CopiesIn(c1, pending) > 1) =>
            Range(c1.fetch) \cap Range(c2.fetch) = {}

(* C7: loadFromPubKey and loadProfile resolve to the cached profile of the
   identifier, as load does, also when it is already EAGER_LOADED *)
C7_LoadProfileResolvesToCached ==
    (Settles /\ done[1].op \in {"loadProfile", "loadFromPubKey"}
             /\ done[1].outcome = "resolved")
        => /\ done[1].requested[1] \in DOMAIN profiles
           /\ done[1].value = <<profiles[done[1].requested[1]]>>

(* C8, as written: after a load of X, absent or LAZY_LOADED when the call
   went to the remote source, whose fetch succeeds, X is EAGER_LOADED and
   the load resolves to the cached profile of X *)
C8_EagerAfterAnyAnswer ==
    (Settles /\ done[1].remote = "answered") =>
        \A npub \in Range(done[1].fetch) :
            /\ isEagerLoaded(profiles, npub)
            /\ done[1].op \in ProfileOps => done[1].value = <<profiles[npub]>>

EventOf(events, npub) ==
    events[CHOOSE i \in DOMAIN events : events[i].npub = npub]

(* C8, amended: after a load of X whose fetch succeeds with a record for X,
   X is EAGER_LOADED, get(X) is the profile cast from that record, and the
   load resolves to that cached profile *)
C8_EagerAfterRecord ==
    (Settles /\ done[1].remote = "answered") =>
        \A npub \in Range(done[1].fetch) \cap Range(NpubsOf(done[1].events)) :
            /\ isEagerLoaded(profiles, npub)
            /\ profiles[npub].npub = npub
            /\ profiles[npub].data = EventOf(done[1].events, npub).data
            /\ done[1].op \in ProfileOps =>
                  /\ done[1].outcome = "resolved"
                  /\ done[1].value = <<profiles[npub]>>

C8_Witness ==
    /\ Settles
    /\ done[1].op = "load"
    /\ done[1].remote = "answered"
    /\ done[1].events # << >>
    /\ done[1].events[1].data = "d2"
    /\ done[1].value = <<[npub |-> done[1].requested[1], load |-> EAGER_LOADED,
                          data |-> "d2", user |-> NoUser]>>

WithoutUser(profile) == [profile EXCEPT !.user = NoUser]

(* C17: a call writes nothing to the cache in the step that suspends it on
   the remote source, and the step that resumes it with the answer writes
   the whole batch: after it every answered identifier is EAGER_LOADED with
   the answered data, and no other entry differs from before the step *)
C17_BatchWrittenInOneStep ==
    [][/\ (\E call \in BagToSet(pending') : Issued(call)) =>
             /\ profiles' = profiles
             /\ done' = << >>
       /\ (done' # << >> /\ done'[1].remote = "answered") =>
             \A npub \in Npubs :
                IF npub \in Range(NpubsOf(done'[1].events))
                THEN /\ isEagerLoaded(profiles', npub)
                     /\ profiles'[npub].data = EventOf(done'[1].events, npub).data
                ELSE /\ npub \in DOMAIN profiles' <=> npub \in DOMAIN profiles
                     /\ npub \in DOMAIN profiles =>
                           WithoutUser(profiles'[npub]) = WithoutUser(profiles[npub])]_vars

C17_Witness ==
    /\ Settles
    /\ done[1].remote = "answered"
    /\ Len(done[1].events) = 2
    /\ \A i \in DOMAIN done[1].events :
          /\ isEagerLoaded(profiles, done[1].events[i].npub)
          /\ profiles[done[1].events[i].npub].data = "d2"
    /\ pending # EmptyBag

(* C18: a loadProfiles or batch load call whose requested identifiers are
   all EAGER_LOADED makes no call to the remote source: no such call is
   suspended on a fetch of no identifier *)
C18_NoRemoteCallWhenAllEager ==
    \A call \in Suspended :
        (call.op \in ListOps /\ call.requested # << >>) => call.fetch # << >>

AccountOps == {"loadAccount", "createAccount"}

(* C16: no step of a loadAccount or createAccount call, whether it suspends
   the call or gives it an account or null, changes the registry, the stored
   blob or the snapshot; an identifier enters the registry only in an
   addAccount of that identifier *)
C16_CreateAndLoadCommitNothing ==
    [][/\ (\E call \in BagToSet(pending') :
              Issued(call) /\ call.op = "loadAccount") =>
             UNCHANGED <<accounts, storage, subject>>
       /\ (/\ done' # << >>
           /\ done'[1].op \in AccountOps
           /\ profileVars' # profileVars) =>
             UNCHANGED <<accounts, storage, subject>>
       /\ \A npub \in Keys(accounts') \ Keys(accounts) :
             /\ lastCall' # lastCall
             /\ lastCall'[1].op = "addAccount"
             /\ lastCall'[1].npub = npub]_vars

C16_Witness ==
    /\ Settles
    /\ done[1].op = "loadAccount"
    /\ done[1].remote = "answered"
    /\ done[1].value # << >>
    /\ accounts # << >>
    /\ done[1].requested[1] \notin Keys(accounts)
    /\ subject = objectValues(accounts)

---------------------------------------------------------------------------
(* Properties of the account store *)

Returned == lastCall # << >> /\ lastCall[1].outcome = "returned"

(* C9: once a mutating call has returned, the registry decoded from the
   stored blob is the in-memory accounts map *)
C9_StorageMatchesMemory ==
    Returned => (storage # << >> /\ parse(storage[1]) = accounts)

C9_Witness ==
    /\ Returned
    /\ Len(accounts) = 2
    /\ accounts[1].value.nsecEncrypted = Undefined
    /\ accounts[2].value.nsecEncrypted # Undefined

(* C10: a successful addAccount or removeAccount writes to storage, then
   emits once, and what it emits is the whole account list after the
   mutation *)
C10_WriteThenOneFullSnapshot ==
    Returned =>
        LET effects == lastCall[1].effects
        IN /\ Len(effects) = 2
           /\ effects[1].kind = "write"
           /\ effects[1].value = stringify(accounts)
           /\ effects[2].kind = "emit"
           /\ effects[2].value = objectValues(accounts)
           /\ subject = objectValues(accounts)

C10_Witness ==
    /\ Returned
    /\ lastCall[1].op = "removeAccount"
    /\ Len(subject) = 1
    /\ lastCall[1].npub # subject[1].npub

Threw == lastCall # << >> /\ lastCall[1].outcome = "threw"

Decoded(store) == parse(getItem(store))

(* C11: a call whose durable write fails throws and emits nothing, so the
   snapshot subscribers hold is always the list decoded from storage *)
C11_NoSnapshotOfUnsavedState ==
    /\ Threw => lastCall[1].effects = << >>
    /\ subject = objectValues(Decoded(storage))

C11_Witness ==
    /\ Threw
    /\ accounts # lastCall[1].before
    /\ subject # objectValues(accounts)
    /\ subject # << >>

(* C12: after construction and after every mutation that returned, a new
   subscriber is sent exactly one snapshot, the values of the current
   registry (not an empty list when the registry holds accounts) *)
C12_ReplayIsCurrentList ==
    (lastCall = << >> \/ Returned) =>
        /\ replay(subject) = <<objectValues(accounts)>>
        /\ accounts # << >> => replay(subject)[1] # << >>

C12_Witness ==
    /\ lastCall = << >>
    /\ Len(accounts) = 1
    /\ replay(subject) = <<objectValues(accounts)>>

EntriesAt(obj, key) == {i \in DOMAIN obj : obj[i].key = key}
ValuesAt(obj, key) == {obj[i].value : i \in EntriesAt(obj, key)}

AfterAddThenRemove ==
    /\ Returned
    /\ lastCall[1].op = "removeAccount"
    /\ lastCall[1].prev # << >>
    /\ lastCall[1].prev[1].op = "addAccount"
    /\ lastCall[1].prev[1].outcome = "returned"
    /\ lastCall[1].prev[1].npub = lastCall[1].npub

(* C13: addAccount(A) then removeAccount(A) leaves the registry and the
   stored blob without A's identifier and every other entry as it was
   before the two calls *)
C13_AddThenRemove ==
    AfterAddThenRemove =>
        LET npub == lastCall[1].npub
            start == lastCall[1].prev[1].before
        IN /\ npub \notin Keys(accounts)
           /\ npub \notin Keys(Decoded(storage))
           /\ Keys(accounts) = Keys(start) \ {npub}
           /\ \A key \in Npubs \ {npub} :
                 /\ ValuesAt(accounts, key) = ValuesAt(start, key)
                 /\ ValuesAt(Decoded(storage), key) = ValuesAt(accounts, key)

C13_Witness ==
    /\ AfterAddThenRemove
    /\ accounts # << >>
    /\ lastCall[1].npub \in Keys(lastCall[1].prev[1].before)

AfterAdd == Returned /\ lastCall[1].op = "addAccount"

(* C14: addAccount is an upsert by identifier: it leaves exactly the added
   record under the identifier, adding the same account again changes
   neither registry, blob nor snapshot, and no snapshot holds an identifier
   twice *)
C14_AddIsIdempotentUpsert ==
    /\ AfterAdd =>
          /\ Cardinality(EntriesAt(accounts, lastCall[1].npub)) = 1
          /\ ValuesAt(accounts, lastCall[1].npub) = {lastCall[1].arg}
    /\ (/\ AfterAdd
        /\ lastCall[1].prev # << >>
        /\ lastCall[1].prev[1].op = "addAccount"
        /\ lastCall[1].prev[1].outcome = "returned"
        /\ lastCall[1].prev[1].arg = lastCall[1].arg) =>
          /\ accounts = lastCall[1].before
          /\ storage = <<stringify(lastCall[1].before)>>
          /\ subject = objectValues(lastCall[1].before)
    /\ \A i, j \in DOMAIN subject : i # j => subject[i].npub # subject[j].npub

C14_Witness ==
    /\ AfterAdd
    /\ Len(accounts) = 2
    /\ lastCall[1].npub \in Keys(lastCall[1].before)
    /\ ValuesAt(lastCall[1].before, lastCall[1].npub) # {lastCall[1].arg}

(* C15: the store constructed after a restart has the registry, and the
   first snapshot, of the last mutation that returned *)
C15_MutationsSurviveRestart ==
    [][(lastCall # << >> /\ lastCall' = << >>) =>
          /\ Returned =>
                /\ accounts' = accounts
                /\ subject' = objectValues(accounts)
          /\ (/\ Threw
              /\ lastCall[1].prev # << >>
              /\ lastCall[1].prev[1].outcome = "returned") =>
                /\ accounts' = lastCall[1].before
                /\ subject' = objectValues(lastCall[1].before)]_vars

C15_Witness ==
    /\ lastCall = << >>
    /\ Len(accounts) = 2
    /\ subject = objectValues(accounts)
    /\ storage = <<stringify(accounts)>>

(* C19: a call whose durable write fails leaves the in-memory registry as
   it found it *)
C19_FailedWriteLeavesMemory ==
    Threw => accounts = lastCall[1].before

(* C20: a removeAccount of an identifier the registry does not hold, when
   it returns, has changed neither the registry nor the decoded stored
   registry, has written and emitted, and the snapshot is the previous one *)
C20_RemoveAbsentChangesNothing ==
    [][(/\ lastCall' # lastCall
        /\ lastCall' # << >>
        /\ lastCall'[1].op = "removeAccount"
        /\ lastCall'[1].outcome = "returned"
        /\ lastCall'[1].npub \notin Keys(accounts)) =>
          /\ accounts' = accounts
          /\ Decoded(storage') = Decoded(storage)
          /\ subject' = subject
          /\ Len(lastCall'[1].effects) = 2]_vars

===========================================================================
